---- MODULE Spec2Model ----
(***************************************************************************)
(* Model of the swish backend functions: the video content service         *)
(* (getVideo, promisePiper, uploadVideo, deleteVideo) and the callable      *)
(* getChannels function.  Each invocation is an async function: an action  *)
(* is one synchronous segment of its body, from one await to the next.     *)
(* The managed services (document store, object store, transcoder, auth)   *)
(* answer each request with success or failure.                            *)
(***************************************************************************)
EXTENDS Integers, Sequences, FiniteSets, TLC

\* ---------------------------------------------------------------- bounds
MaxCalls == 2
MaxChannels == 153

\* ------------------------------------------------------ program constants
LIMIT == 100

Calls == 1..MaxCalls
Users == {"u1", "u2"}
NoAuth == "noauth"
UnknownUser == "u3"
VideoIDs == {"v1", "id", "v0"}
Mimes == {"video/mp4"}

Min(a, b) == IF a < b THEN a ELSE b

\* -------------------------------------------------------- initial stores
\* content/<id> documents: assetID and playbackID of a video
ContentDoc(id) == [assetID |-> <<"asset", id>>, playbackID |-> <<"play", id>>]

ContentStores ==
    { [i \in {"v1", "id"} |-> ContentDoc(i)] }

\* video data records read by VideoDataService.getVideo: the author
VideoStores ==
    { [i \in {"v1", "id"} |-> [author |-> IF i = "v1" THEN "u1" ELSE "u2"]] }

\* the channels collection in document order
ChannelsOf(n) ==
    [i \in 1..n |-> [owner |-> IF i % 3 = 0 THEN "u2" ELSE "u1", name |-> i]]

ChannelSizes == {MaxChannels - 3, MaxChannels}

\* ------------------------------------------------------------- strings
\* A string is a sequence of tokens; "/" is the path separator token.
Bucket == "meteor-videos"
StorageBase == <<"https://storage.googleapis.com", "/", Bucket, "/">>

\* variant: the path segments in the wrong order
StoragePath_Swapped(userID, id) == <<"masters", "/", id, "/", userID>>

\* `masters/${context.auth.userID}/${id}`
StoragePath(userID, id) == <<"masters", "/", userID, "/", id>>

\* `https://storage.googleapis.com/meteor-videos/${path}`
TranscoderInput(path) == StorageBase \o path

\* `https://api.mux.com/video/v1/assets/${contentRecord.assetID}`
AssetURL(assetID) == <<"https://api.mux.com/video/v1/assets", "/">> \o assetID

\* firestoreInstance.doc(`content/${id}`)
ContentDocPath(id) == <<"content", "/", id>>

\* firestoreInstance.doc(`content/id`) in deleteVideo
DeletedDocPath(id) == <<"content", "/", "id">>

\* the document id a content path names
DocIdOf(path) == path[3]

\* ----------------------------------------------------------------- state
VARIABLES
    pc,        \* position of each invocation
    op,        \* operation invoked
    caller,    \* context.auth (NoAuth when absent) / context.auth.userID
    arg,       \* id or data.user
    mime,      \* mime argument of uploadVideo
    loc,       \* locals of the invocation
    err,       \* error thrown to the caller
    ret,       \* value returned
    log,       \* requests issued / effects done by the invocation, in order
    content,   \* document store, collection content
    videos,    \* video data records
    channels,  \* document store, collection channels
    storage,   \* object store bucket meteor-videos
    muxAssets, \* assets at the transcoder
    muxPosts   \* POST requests sent to the transcoder

vars == <<pc, op, caller, arg, mime, loc, err, ret, log,
          content, videos, channels, storage, muxAssets, muxPosts>>

callVars == <<op, caller, arg, mime>>
stores == <<content, videos, channels, storage, muxAssets, muxPosts>>

NoLoc == [author |-> "", path |-> <<>>, assetID |-> <<>>]

Event(step, target, detail) == [step |-> step, target |-> target, detail |-> detail]

Init ==
    /\ pc = [c \in Calls |-> "idle"]
    /\ op = [c \in Calls |-> ""]
    /\ caller = [c \in Calls |-> ""]
    /\ arg = [c \in Calls |-> ""]
    /\ mime = [c \in Calls |-> ""]
    /\ loc = [c \in Calls |-> NoLoc]
    /\ err = [c \in Calls |-> ""]
    /\ ret = [c \in Calls |-> <<>>]
    /\ log = [c \in Calls |-> <<>>]
    /\ content \in ContentStores
    /\ videos \in VideoStores
    /\ \E n \in ChannelSizes : channels = ChannelsOf(n)
    /\ storage = <<>>
    /\ muxAssets = { content[i].assetID : i \in DOMAIN content }
    /\ muxPosts = <<>>

\* ---------------------------------------------------------------- helpers
CanStart(c) ==
    /\ pc[c] = "idle"
    /\ IF c = 1 THEN TRUE ELSE pc[c - 1] # "idle"

Start(c, o, who, a, m) ==
    /\ op' = [op EXCEPT ![c] = o]
    /\ caller' = [caller EXCEPT ![c] = who]
    /\ arg' = [arg EXCEPT ![c] = a]
    /\ mime' = [mime EXCEPT ![c] = m]

Throw(c, e) ==
    /\ pc' = [pc EXCEPT ![c] = "threw"]
    /\ err' = [err EXCEPT ![c] = e]
    /\ ret' = ret

Return(c, v) ==
    /\ pc' = [pc EXCEPT ![c] = "returned"]
    /\ ret' = [ret EXCEPT ![c] = v]
    /\ err' = err

Await(c, p) ==
    /\ pc' = [pc EXCEPT ![c] = p]
    /\ err' = err
    /\ ret' = ret

Logged(c, evs) == log' = [log EXCEPT ![c] = @ \o evs]

\* ------------------------------------------------------------- getVideo
\* contentDocSnap.exists
ContentExists(id) == DocIdOf(ContentDocPath(id)) \in DOMAIN content

\* the record getVideo returns
ContentRecord(id) ==
    [id |-> id,
     assetID |-> content[DocIdOf(ContentDocPath(id))].assetID,
     playbackID |-> content[DocIdOf(ContentDocPath(id))].playbackID]

InvokeGetVideo(c, who, id) ==
    /\ CanStart(c)
    /\ Start(c, "getVideo", who, id, "")
    /\ Await(c, "get_doc")
    /\ UNCHANGED <<loc, log, stores>>

GetVideoResolve(c) ==
    /\ pc[c] = "get_doc"
    /\ IF ContentExists(arg[c])
       THEN Return(c, <<ContentRecord(arg[c])>>)
       ELSE Throw(c, "ResourceNotFoundError")
    /\ UNCHANGED <<callVars, loc, log, stores>>

\* --------------------------------------------------------- promisePiper
\* readStream.pipe(writeStream) has been called and the only listener is
\* writeStream.on('finish', resolve): the promise is pending until 'finish'.
\* The object exists in the bucket once the write stream has finished.
StoreObject(path, contentType) ==
    [p \in DOMAIN storage \cup {path} |->
        IF p = path THEN [contentType |-> contentType, public |-> FALSE]
        ELSE storage[p]]

\* storageObject.makePublic()
PublishObject(path) ==
    [p \in DOMAIN storage |->
        IF p = path THEN [storage[p] EXCEPT !.public = TRUE] ELSE storage[p]]

\* ----------------------------------------------------------- uploadVideo
\* VideoDataService.getVideo(context, id): the video data record of id
VideoDataExists(id) == id \in DOMAIN videos

VideoData(id) == videos[id]

\* variant: the authorization check never fires
NotAuthor_Unchecked(userID, video) == FALSE

\* context.auth.userID != video.author
NotAuthor(userID, video) == userID # video.author

InvokeUploadVideo(c, who, id, m) ==
    /\ CanStart(c)
    /\ Start(c, "uploadVideo", who, id, m)
    /\ Await(c, "up_getVideo")
    /\ UNCHANGED <<loc, log, stores>>

\* the segment from the resolution of getVideo to await promisePiper(...)
UploadGetVideoResolve(c) ==
    /\ pc[c] = "up_getVideo"
    /\ IF ~VideoDataExists(arg[c])
       THEN /\ Throw(c, "ResourceNotFoundError")
            /\ UNCHANGED <<loc, log>>
       ELSE LET video == VideoData(arg[c])
                path == StoragePath(caller[c], arg[c])
            IN  IF NotAuthor(caller[c], video)
                THEN /\ Throw(c, "AuthorizationError")
                     /\ loc' = [loc EXCEPT ![c].author = video.author]
                     /\ UNCHANGED log
                ELSE /\ loc' = [loc EXCEPT ![c].author = video.author,
                                           ![c].path = path]
                     /\ Logged(c, <<Event("authCheck", caller[c], video.author),
                                    Event("createWriteStream", path, mime[c])>>)
                     /\ Await(c, "up_pipe")
    /\ UNCHANGED <<callVars, stores>>

\* 'finish' is emitted: resolve(); then storageObject.makePublic() is called
PipeFinish(c) ==
    /\ pc[c] = "up_pipe"
    /\ storage' = StoreObject(loc[c].path, mime[c])
    /\ Logged(c, <<Event("finish", loc[c].path, mime[c])>>)
    /\ Await(c, "up_makePublic")
    /\ UNCHANGED <<callVars, loc, content, videos, channels, muxAssets, muxPosts>>

\* 'error' is emitted by the read or the write stream: nothing listens and
\* reject is never called, so the promise stays pending
PipeError(c) ==
    /\ pc[c] = "up_pipe"
    /\ Logged(c, <<Event("streamError", loc[c].path, mime[c])>>)
    /\ Await(c, "up_stalled")
    /\ UNCHANGED <<callVars, loc, stores>>

\* makePublic resolves; then axios.post(...) is called
MakePublicResolve(c) ==
    /\ pc[c] = "up_makePublic"
    /\ loc[c].path \in DOMAIN storage
    /\ storage' = PublishObject(loc[c].path)
    /\ LET post == Event("post", TranscoderInput(loc[c].path), arg[c])
       IN  /\ Logged(c, <<Event("makePublic", loc[c].path, ""), post>>)
           /\ muxPosts' = Append(muxPosts, post)
    /\ Await(c, "up_post")
    /\ UNCHANGED <<callVars, loc, content, videos, channels, muxAssets>>

\* variant: the failure of makePublic is swallowed and the POST is sent
MakePublicReject_Swallowed(c) ==
    /\ pc[c] = "up_makePublic"
    /\ LET post == Event("post", TranscoderInput(loc[c].path), arg[c])
       IN  /\ Logged(c, <<post>>)
           /\ muxPosts' = Append(muxPosts, post)
    /\ Await(c, "up_post")
    /\ UNCHANGED <<callVars, loc, content, videos, channels, storage, muxAssets>>

\* makePublic rejects
MakePublicReject(c) ==
    /\ pc[c] = "up_makePublic"
    /\ Throw(c, "StorageError")
    /\ UNCHANGED <<callVars, loc, log, stores>>

PostResolve(c) ==
    /\ pc[c] = "up_post"
    /\ Return(c, <<>>)
    /\ UNCHANGED <<callVars, loc, log, stores>>

PostReject(c) ==
    /\ pc[c] = "up_post"
    /\ Throw(c, "HttpError")
    /\ UNCHANGED <<callVars, loc, log, stores>>

\* ----------------------------------------------------------- deleteVideo
InvokeDeleteVideo(c, who, id) ==
    /\ CanStart(c)
    /\ Start(c, "deleteVideo", who, id, "")
    /\ Await(c, "del_getVideo")
    /\ UNCHANGED <<loc, log, stores>>

\* variant: a missing record is not reported and the remote delete is sent
DeleteGetVideoResolve_NoExistsCheck(c) ==
    /\ pc[c] = "del_getVideo"
    /\ LET assetID == IF ContentExists(arg[c])
                      THEN ContentRecord(arg[c]).assetID ELSE <<>>
       IN  /\ loc' = [loc EXCEPT ![c].assetID = assetID]
           /\ Logged(c, <<Event("muxDeleteSent", AssetURL(assetID), "")>>)
           /\ Await(c, "del_muxDelete")
    /\ UNCHANGED <<callVars, stores>>

\* getVideo resolves or throws; then axios.delete(...) is called
DeleteGetVideoResolve(c) ==
    /\ pc[c] = "del_getVideo"
    /\ IF ContentExists(arg[c])
       THEN LET contentRecord == ContentRecord(arg[c])
            IN  /\ loc' = [loc EXCEPT ![c].assetID = contentRecord.assetID]
                /\ Logged(c, <<Event("muxDeleteSent", AssetURL(contentRecord.assetID), "")>>)
                /\ Await(c, "del_muxDelete")
       ELSE /\ Throw(c, "ResourceNotFoundError")
            /\ UNCHANGED <<loc, log>>
    /\ UNCHANGED <<callVars, stores>>

\* the transcoder deletes the asset; then contentDoc.delete() is called
MuxDeleteResolve(c) ==
    /\ pc[c] = "del_muxDelete"
    /\ loc[c].assetID \in muxAssets
    /\ muxAssets' = muxAssets \ {loc[c].assetID}
    /\ Logged(c, <<Event("muxDeleted", AssetURL(loc[c].assetID), ""),
                   Event("docDeleteSent", DeletedDocPath(arg[c]), "")>>)
    /\ Await(c, "del_docDelete")
    /\ UNCHANGED <<callVars, loc, content, videos, channels, storage, muxPosts>>

\* variant: the failure of the remote delete is swallowed
MuxDeleteReject_Swallowed(c) ==
    /\ pc[c] = "del_muxDelete"
    /\ Logged(c, <<Event("docDeleteSent", DeletedDocPath(arg[c]), "")>>)
    /\ Await(c, "del_docDelete")
    /\ UNCHANGED <<callVars, loc, stores>>

\* the request fails (no such asset, or the service is unreachable)
MuxDeleteReject(c) ==
    /\ pc[c] = "del_muxDelete"
    /\ Throw(c, "HttpError")
    /\ UNCHANGED <<callVars, loc, log, stores>>

DocDeleteResolve(c) ==
    /\ pc[c] = "del_docDelete"
    /\ LET d == DocIdOf(DeletedDocPath(arg[c]))
       IN  content' = [i \in DOMAIN content \ {d} |-> content[i]]
    /\ Logged(c, <<Event("docDeleted", DeletedDocPath(arg[c]), "")>>)
    /\ Return(c, <<>>)
    /\ UNCHANGED <<callVars, loc, videos, channels, storage, muxAssets, muxPosts>>

DocDeleteReject(c) ==
    /\ pc[c] = "del_docDelete"
    /\ Throw(c, "FirestoreError")
    /\ UNCHANGED <<callVars, loc, log, stores>>

\* ----------------------------------------------------------- getChannels
\* admin.auth().getUser(user) resolves for these users
AuthUsers == Users

\* .where('owner', '==', user)
WhereOwner(docs, user) == SelectSeq(docs, LAMBDA d : d.owner = user)

\* variant: the limit is not applied
Limit_Unbounded(docs, n) == docs

\* .limit(100)
Limit(docs, n) == SubSeq(docs, 1, Min(Len(docs), n))

\* db.collection('channels').where('owner', '==', user).limit(100).get(),
\* mapped with docSnap.data()
ChannelQuery(user) == Limit(WhereOwner(channels, user), LIMIT)

\* variant: the auth context is not checked
InvokeGetChannels_NoAuthCheck(c, who, user) ==
    /\ CanStart(c)
    /\ Start(c, "getChannels", who, user, "")
    /\ Logged(c, <<Event("getUser", user, "")>>)
    /\ Await(c, "ch_getUser")
    /\ UNCHANGED <<loc, stores>>

\* if(!context.auth) throw unauthenticated; else getUser(user) is called
InvokeGetChannels(c, who, user) ==
    /\ CanStart(c)
    /\ Start(c, "getChannels", who, user, "")
    /\ IF who = NoAuth
       THEN /\ Throw(c, "unauthenticated")
            /\ UNCHANGED log
       ELSE /\ Logged(c, <<Event("getUser", user, "")>>)
            /\ Await(c, "ch_getUser")
    /\ UNCHANGED <<loc, stores>>

\* getUser resolves; then query.get() is called
GetUserResolve(c) ==
    /\ pc[c] = "ch_getUser"
    /\ arg[c] \in AuthUsers
    /\ Logged(c, <<Event("query", arg[c], "")>>)
    /\ Await(c, "ch_query")
    /\ UNCHANGED <<callVars, loc, stores>>

\* getUser rejects (unknown user, or any other failure): catch block
GetUserReject(c) ==
    /\ pc[c] = "ch_getUser"
    /\ Throw(c, "invalid-argument")
    /\ UNCHANGED <<callVars, loc, log, stores>>

QueryResolve(c) ==
    /\ pc[c] = "ch_query"
    /\ Return(c, ChannelQuery(arg[c]))
    /\ UNCHANGED <<callVars, loc, log, stores>>

QueryReject(c) ==
    /\ pc[c] = "ch_query"
    /\ Throw(c, "internal")
    /\ UNCHANGED <<callVars, loc, log, stores>>

\* ------------------------------------------------------------------ Next
\* a client calls one of the functions
Invoke(c) ==
    \/ \E who \in Users, id \in VideoIDs : InvokeGetVideo(c, who, id)
    \/ \E who \in Users, id \in VideoIDs, m \in Mimes : InvokeUploadVideo(c, who, id, m)
    \/ \E who \in Users, id \in VideoIDs : InvokeDeleteVideo(c, who, id)
    \/ \E who \in Users \cup {NoAuth}, user \in Users \cup {UnknownUser} :
          InvokeGetChannels(c, who, user)

\* a pending request is answered and the continuation of the await runs
Continue(c) ==
    \/ GetVideoResolve(c)
    \/ UploadGetVideoResolve(c)
    \/ PipeFinish(c)
    \/ PipeError(c)
    \/ MakePublicResolve(c)
    \/ MakePublicReject(c)
    \/ PostResolve(c)
    \/ PostReject(c)
    \/ DeleteGetVideoResolve(c)
    \/ MuxDeleteResolve(c)
    \/ MuxDeleteReject(c)
    \/ DocDeleteResolve(c)
    \/ DocDeleteReject(c)
    \/ GetUserResolve(c)
    \/ GetUserReject(c)
    \/ QueryResolve(c)
    \/ QueryReject(c)

Next == \E c \in Calls : Invoke(c) \/ Continue(c)

Spec == Init /\ [][Next]_vars

\* every pending request is eventually answered and every continuation runs
FairSpec == Spec /\ \A c \in Calls : WF_vars(Continue(c))

\* ------------------------------------------------------------ properties
Settled == {"returned", "threw"}

Steps(c) == [i \in 1..Len(log[c]) |-> log[c][i].step]

IsPrefix(s, t) == Len(s) <= Len(t) /\ s = SubSeq(t, 1, Len(s))

Has(c, step) == \E i \in 1..Len(log[c]) : log[c][i].step = step

Count(c, step) == Cardinality({i \in 1..Len(log[c]) : log[c][i].step = step})

MutatingSteps ==
    {"createWriteStream", "finish", "makePublic", "post",
     "muxDeleteSent", "muxDeleted", "docDeleteSent", "docDeleted"}

\* the user whose prefix masters/<user>/ a storage path lies under
PrefixUser(path) == IF Len(path) >= 3 /\ path[1] = "masters" /\ path[2] = "/"
                    THEN path[3] ELSE ""

\* the object a storage URL names
ObjectOfURL(url) ==
    IF IsPrefix(StorageBase, url)
    THEN SubSeq(url, Len(StorageBase) + 1, Len(url)) ELSE <<>>

\* C1: in every invocation of uploadVideo and deleteVideo, every mutating
\* step (storage write, makePublic, transcoder POST, remote asset delete,
\* content record delete) is preceded, in that invocation, by a passed check
\* that the caller's userID equals the video's author.
C1_AuthBeforeMutation ==
    \A c \in Calls : \A i \in 1..Len(log[c]) :
        log[c][i].step \in MutatingSteps =>
            \E j \in 1..(i - 1) :
                /\ log[c][j].step = "authCheck"
                /\ log[c][j].target = log[c][j].detail

\* C2: whenever deleteVideo(id) has returned, the remote asset named by the
\* record's assetID is deleted and the content record content/<id> of that
\* id no longer exists.
C2_DeleteRemovesBoth ==
    \A c \in Calls :
        (op[c] = "deleteVideo" /\ pc[c] = "returned") =>
            /\ loc[c].assetID \notin muxAssets
            /\ ~ContentExists(arg[c])

\* C3: an uploadVideo call whose caller differs from the fetched video's
\* author fails with AuthorizationError and has created no write stream,
\* made nothing public and sent no POST; every stored object and every POST
\* received by the transcoder comes from some other invocation's steps.
C3_UploadRejectsNonAuthor ==
    /\ \A c \in Calls :
        (op[c] = "uploadVideo" /\ loc[c].author # "" /\ caller[c] # loc[c].author) =>
            /\ pc[c] = "threw"
            /\ err[c] = "AuthorizationError"
            /\ log[c] = <<>>
    /\ \A p \in DOMAIN storage :
        \E c \in Calls : \E i \in 1..Len(log[c]) :
            log[c][i].step = "finish" /\ log[c][i].target = p
    /\ \A k \in 1..Len(muxPosts) :
        \E c \in Calls : \E i \in 1..Len(log[c]) : log[c][i] = muxPosts[k]

C3_Witness ==
    \E c, d \in Calls :
        /\ op[c] = "uploadVideo" /\ err[c] = "AuthorizationError"
        /\ op[d] = "uploadVideo" /\ Len(muxPosts) = 1

\* C4: when the content record of id does not exist at the time getVideo or
\* deleteVideo reads it, the call fails with ResourceNotFoundError, and the
\* step sends no remote delete request, deletes no document, and the failed
\* call does nothing afterwards.
C4_NotFound ==
    [][\A c \in Calls :
        /\ (pc[c] \in {"get_doc", "del_getVideo"} /\ pc'[c] # pc[c]
                /\ ~ContentExists(arg[c])) =>
              /\ pc'[c] = "threw"
              /\ err'[c] = "ResourceNotFoundError"
              /\ log'[c] = <<>>
              /\ content' = content
              /\ muxAssets' = muxAssets
        /\ pc[c] = "threw" => (pc'[c] = "threw" /\ log'[c] = log[c])]_vars

C4_Witness ==
    \E c, d \in Calls :
        /\ op[c] = "getVideo" /\ err[c] = "ResourceNotFoundError"
        /\ op[d] = "deleteVideo" /\ err[d] = "ResourceNotFoundError"

\* C5: a getChannels call that returned gives only channel records of the
\* collection whose owner is the requested user, at most LIMIT of them, and
\* all of them when the user owns LIMIT or fewer.
C5_GetChannelsResult ==
    \A c \in Calls :
        (op[c] = "getChannels" /\ pc[c] = "returned") =>
            LET owned == {i \in 1..Len(channels) : channels[i].owner = arg[c]}
                got == {ret[c][i] : i \in 1..Len(ret[c])}
            IN  /\ caller[c] # NoAuth
                /\ arg[c] \in AuthUsers
                /\ \A r \in got : r.owner = arg[c]
                /\ got \subseteq {channels[i] : i \in owned}
                /\ Len(ret[c]) <= LIMIT
                /\ Cardinality(got) = Len(ret[c])
                /\ Cardinality(owned) <= LIMIT => got = {channels[i] : i \in owned}

C5_Witness ==
    \E c, d \in Calls :
        /\ op[c] = "getChannels" /\ pc[c] = "returned" /\ Len(ret[c]) = LIMIT
        /\ Cardinality({i \in 1..Len(channels) : channels[i].owner = arg[c]}) > LIMIT
        /\ op[d] = "getChannels" /\ pc[d] = "returned"
        /\ Len(ret[d]) < LIMIT /\ Len(ret[d]) > 0

\* C6: a getChannels call without auth context fails with unauthenticated
\* and issues no user lookup and no query; a call whose user lookup fails
\* ends with invalid-argument and issues no query; a call for a user the
\* auth service does not know never queries; no step is issued twice.
C6_GetChannelsFailures ==
    \A c \in Calls :
        op[c] = "getChannels" =>
            /\ caller[c] = NoAuth =>
                  (pc[c] = "threw" /\ err[c] = "unauthenticated" /\ log[c] = <<>>)
            /\ err[c] = "unauthenticated" => caller[c] = NoAuth
            /\ (pc[c] = "threw" /\ Steps(c) = <<"getUser">>) => err[c] = "invalid-argument"
            /\ err[c] = "invalid-argument" => Steps(c) = <<"getUser">>
            /\ arg[c] \notin AuthUsers => ~Has(c, "query")
            /\ IsPrefix(Steps(c), <<"getUser", "query">>)

C6_Witness ==
    \E c, d \in Calls :
        /\ op[c] = "getChannels" /\ err[c] = "unauthenticated"
        /\ op[d] = "getChannels" /\ err[d] = "invalid-argument"
        /\ arg[d] = UnknownUser

UploadOrder == <<"authCheck", "createWriteStream", "finish", "makePublic", "post">>

\* C7: the steps of an uploadVideo call happen in the order ownership
\* check, write stream, finish, makePublic, POST, each at most once; a call
\* that failed at a step has executed none of the later steps.
C7_UploadOrder ==
    /\ \A c \in Calls :
        op[c] = "uploadVideo" =>
            /\ \/ IsPrefix(Steps(c), UploadOrder)
               \/ Steps(c) = <<"authCheck", "createWriteStream", "streamError">>
            /\ Count(c, "post") <= 1
            /\ Has(c, "post") =>
                  /\ loc[c].path \in DOMAIN storage
                  /\ \E i, j, k \in 1..Len(log[c]) :
                        /\ i < j /\ j < k
                        /\ log[c][i].step = "finish"
                        /\ log[c][j].step = "makePublic"
                        /\ log[c][k].step = "post"
            /\ err[c] \in {"ResourceNotFoundError", "AuthorizationError"} => log[c] = <<>>
            /\ pc[c] = "up_stalled" => Steps(c) = <<"authCheck", "createWriteStream", "streamError">>
            /\ err[c] = "StorageError" => Steps(c) = <<"authCheck", "createWriteStream", "finish">>
            /\ err[c] = "HttpError" => Steps(c) = UploadOrder
    /\ Len(muxPosts) = Cardinality({c \in Calls : Has(c, "post")})

C7_Witness ==
    \E c, d \in Calls :
        /\ op[c] = "uploadVideo" /\ pc[c] = "returned"
        /\ op[d] = "uploadVideo" /\ err[d] = "StorageError"

DeleteOrder == <<"muxDeleteSent", "muxDeleted", "docDeleteSent", "docDeleted">>

\* C8: the steps of a deleteVideo call happen in the order fetch, remote
\* delete, local delete, each at most once; when the remote delete fails the
\* call throws that error having issued no document delete, and the
\* document store differs from its initial content only if some call has
\* deleted a document after its remote delete succeeded.
C8_DeleteOrder ==
    /\ \A c \in Calls :
        op[c] = "deleteVideo" =>
            /\ IsPrefix(Steps(c), DeleteOrder)
            /\ pc[c] = "del_muxDelete" => Steps(c) = <<"muxDeleteSent">>
            /\ (pc[c] = "threw" /\ Steps(c) = <<"muxDeleteSent">>) => err[c] = "HttpError"
            /\ err[c] = "HttpError" => Steps(c) = <<"muxDeleteSent">>
            /\ err[c] = "ResourceNotFoundError" => log[c] = <<>>
    /\ content \notin ContentStores =>
          \E c \in Calls : op[c] = "deleteVideo" /\ Steps(c) = DeleteOrder

C8_Witness ==
    \E c, d \in Calls :
        /\ op[c] = "deleteVideo" /\ err[c] = "HttpError"
        /\ op[d] = "deleteVideo" /\ pc[d] = "returned"

\* C9: every uploadVideo call that has started piping eventually settles
\* (returns or throws), whatever the outcome of the storage write.
C9_UploadSettles ==
    \A c \in Calls : (pc[c] = "up_pipe") ~> (pc[c] \in Settled)

\* C10: every storage object lies at masters/<author>/<video id>; every
\* object an invocation writes or publishes lies at
\* masters/<caller>/<id> with the caller the author of that video, under the
\* caller's own prefix; each POST names the object written in the same
\* invocation and passes the video id through.
C10_UploadPaths ==
    /\ \A p \in DOMAIN storage :
        \E id \in DOMAIN videos :
            /\ p = <<"masters", "/", videos[id].author, "/", id>>
            /\ PrefixUser(p) = videos[id].author
    /\ \A c \in Calls : \A i \in 1..Len(log[c]) :
        LET e == log[c][i]
        IN  /\ e.step \in {"createWriteStream", "finish", "makePublic"} =>
                  /\ arg[c] \in DOMAIN videos
                  /\ videos[arg[c]].author = caller[c]
                  /\ e.target = <<"masters", "/", caller[c], "/", arg[c]>>
                  /\ PrefixUser(e.target) = caller[c]
            /\ e.step = "post" =>
                  /\ e.detail = arg[c]
                  /\ \E j \in 1..(i - 1) :
                        /\ log[c][j].step = "finish"
                        /\ log[c][j].target = ObjectOfURL(e.target)
                  /\ ObjectOfURL(e.target) \in DOMAIN storage

C10_Witness ==
    \E c, d \in Calls :
        /\ caller[c] # caller[d]
        /\ Has(c, "post") /\ Has(d, "finish")

====
